---- MODULE Spec2Model ----
(***************************************************************************)
(* Model of the native export engine (src/rust/src/export.rs) and of the   *)
(* HTML metadata extractor (src/rust/src/metadata.rs).                     *)
(*                                                                         *)
(* Text is a sequence of one-character strings.  A Python object is a      *)
(* record of uniform shape tagged by `kind`; a prospect (a Rust            *)
(* HashMap<String, PyObject>) is a function from key strings to objects.   *)
(* An f64 is [cls, m]: cls is "fin", "nan", "inf" or "ninf", and for a     *)
(* finite value m is the decimal, in thousandths, that the double is the   *)
(* nearest double to.                                                      *)
(***************************************************************************)
EXTENDS Integers, Sequences, FiniteSets, TLC

VARIABLES prospects, html, csv_out, json_out, meta_out

vars == <<prospects, html, csv_out, json_out, meta_out>>

(***************************************************************************)
(* Bounds of the model.                                                    *)
(***************************************************************************)
MaxRecords == 2
MaxEmails == 2
MaxLinks == 3

(***************************************************************************)
(* Python objects, f64 values, Option and PyResult.                        *)
(***************************************************************************)
F64(cls, m) == [cls |-> cls, m |-> m]
Fin(m) == F64("fin", m)
NaN == F64("nan", 0)
PosInf == F64("inf", 0)
NegInf == F64("ninf", 0)

EmptyMap == [k \in {} |-> 0]

PyObj(kind, b, n, f, s, l, d) ==
  [kind |-> kind, b |-> b, n |-> n, f |-> f, s |-> s, l |-> l, d |-> d]
PyNone == PyObj("none", FALSE, 0, Fin(0), <<>>, <<>>, EmptyMap)
PyBool(b) == PyObj("bool", b, 0, Fin(0), <<>>, <<>>, EmptyMap)
PyInt(n) == PyObj("int", FALSE, n, Fin(0), <<>>, <<>>, EmptyMap)
PyFloat(f) == PyObj("float", FALSE, 0, f, <<>>, <<>>, EmptyMap)
PyStr(s) == PyObj("str", FALSE, 0, Fin(0), s, <<>>, EmptyMap)
PyList(l) == PyObj("list", FALSE, 0, Fin(0), <<>>, l, EmptyMap)
PyDict(d) == PyObj("dict", FALSE, 0, Fin(0), <<>>, <<>>, d)

Some(v) == [some |-> TRUE, v |-> v]
None(dflt) == [some |-> FALSE, v |-> dflt]
Ok(v) == [ok |-> TRUE, v |-> v]
Err(dflt) == [ok |-> FALSE, v |-> dflt]

(***************************************************************************)
(* obj.extract::<T>(py): the typed reads the helpers ask of an object.     *)
(* String takes a str only; bool takes a bool only; i64 takes an int (a    *)
(* Python bool is an int); f64 takes a float or anything with an integer   *)
(* or float value; Vec<String> takes a list all of whose elements are str; *)
(* HashMap<String, PyObject> takes a dict.                                 *)
(***************************************************************************)
ExtractString(obj) ==
  IF obj.kind = "str" THEN Ok(obj.s) ELSE Err(<<>>)

ExtractF64(obj) ==
  CASE obj.kind = "float" -> Ok(obj.f)
    [] obj.kind = "int" -> Ok(Fin(obj.n * 1000))
    [] obj.kind = "bool" -> Ok(Fin(IF obj.b THEN 1000 ELSE 0))
    [] OTHER -> Err(Fin(0))

ExtractI64(obj) ==
  CASE obj.kind = "int" -> Ok(obj.n)
    [] obj.kind = "bool" -> Ok(IF obj.b THEN 1 ELSE 0)
    [] OTHER -> Err(0)

ExtractBool(obj) ==
  IF obj.kind = "bool" THEN Ok(obj.b) ELSE Err(FALSE)

ExtractVecString(obj) ==
  IF obj.kind = "list" /\ \A i \in 1..Len(obj.l) : ExtractString(obj.l[i]).ok
  THEN Ok([i \in 1..Len(obj.l) |-> obj.l[i].s])
  ELSE Err(<<>>)

ExtractHashMap(obj) ==
  IF obj.kind = "dict" THEN Ok(obj.d) ELSE Err(EmptyMap)

\* obj.extract::<Option<T>>(py).ok(), flattened: None for the None object and
\* for an object T does not take.
ExtractOption(obj, res, dflt) ==
  IF obj.kind = "none" THEN None(dflt)
  ELSE IF res.ok THEN Some(res.v) ELSE None(dflt)

extract_opt_string(map, key) ==
  IF key \notin DOMAIN map THEN None(<<>>)
  ELSE ExtractOption(map[key], ExtractString(map[key]), <<>>)

extract_opt_f64(map, key) ==
  IF key \notin DOMAIN map THEN None(Fin(0))
  ELSE ExtractOption(map[key], ExtractF64(map[key]), Fin(0))

\* Faulty variant: an absent or unreadable integer reads as 0.
extract_opt_i64_Zero(map, key) ==
  IF key \notin DOMAIN map THEN Some(0)
  ELSE LET o == ExtractOption(map[key], ExtractI64(map[key]), 0)
       IN  IF o.some THEN o ELSE Some(0)

extract_opt_i64(map, key) ==
  IF key \notin DOMAIN map THEN None(0)
  ELSE ExtractOption(map[key], ExtractI64(map[key]), 0)

\* Faulty variant: any truthy number counts as true.
extract_bool_Truthy(map, key) ==
  IF key \notin DOMAIN map THEN FALSE
  ELSE CASE map[key].kind = "bool" -> map[key].b
         [] map[key].kind = "int" -> map[key].n # 0
         [] OTHER -> FALSE

extract_bool(map, key) ==
  IF key \notin DOMAIN map THEN FALSE
  ELSE IF ExtractBool(map[key]).ok THEN ExtractBool(map[key]).v ELSE FALSE

extract_opt_bool(map, key) ==
  IF key \notin DOMAIN map THEN None(FALSE)
  ELSE ExtractOption(map[key], ExtractBool(map[key]), FALSE)

extract_string_list(map, key) ==
  IF key \notin DOMAIN map THEN <<>>
  ELSE LET o == ExtractOption(map[key], ExtractVecString(map[key]), <<>>)
       IN  IF o.some THEN o.v ELSE <<>>

str_or_empty(opt) == IF opt.some THEN opt.v ELSE <<>>

yes_no(val) == IF val THEN <<"Y","e","s">> ELSE <<"N","o">>

\* Faulty variant: an empty signals dict counts as no signals.
extract_signals_NonEmpty(map) ==
  IF "signals" \notin DOMAIN map THEN None(EmptyMap)
  ELSE IF map["signals"].kind = "dict" /\ DOMAIN map["signals"].d # {}
       THEN Some(map["signals"].d)
       ELSE None(EmptyMap)

extract_signals(map) ==
  IF "signals" \notin DOMAIN map THEN None(EmptyMap)
  ELSE ExtractOption(map["signals"], ExtractHashMap(map["signals"]), EmptyMap)

(***************************************************************************)
(* Number formatting.                                                      *)
(***************************************************************************)
Digit(d) == <<"0","1","2","3","4","5","6","7","8","9">>[d + 1]

Abs(n) == IF n < 0 THEN -n ELSE n

RECURSIVE NatToString(_)
NatToString(n) ==
  IF n < 10 THEN <<Digit(n)>> ELSE Append(NatToString(n \div 10), Digit(n % 10))

\* i64::to_string
I64ToString(n) == IF n < 0 THEN <<"-">> \o NatToString(-n) ELSE NatToString(n)

\* The fractional digits of a thousandths, without trailing zeros.
FracDigits(a) ==
  LET r == a % 1000
  IN  CASE r = 0 -> <<>>
        [] r % 100 = 0 -> <<Digit(r \div 100)>>
        [] r % 10 = 0 -> <<Digit(r \div 100), Digit((r \div 10) % 10)>>
        [] OTHER -> <<Digit(r \div 100), Digit((r \div 10) % 10), Digit(r % 10)>>

\* f64::to_string: the shortest decimal that reads back as the same double.
F64ToString(f) ==
  CASE f.cls = "nan" -> <<"N","a","N">>
    [] f.cls = "inf" -> <<"i","n","f">>
    [] f.cls = "ninf" -> <<"-","i","n","f">>
    [] OTHER ->
         LET a == Abs(f.m)
             frac == FracDigits(a)
         IN  (IF f.m < 0 THEN <<"-">> ELSE <<>>)
             \o NatToString(a \div 1000)
             \o (IF frac = <<>> THEN <<>> ELSE <<".">> \o frac)

\* The sign of (the double nearest to a/1000) - a/1000, for the magnitudes of
\* the model's floats that lie halfway between two tenths.  A multiple of
\* 0.125 is a double itself.
F64ErrSign(a) ==
  CASE a % 125 = 0 -> 0
    [] a \in {450} -> 1
    [] a \in {350} -> -1

\* The sign of fl(v * 100.0) - (a/10) for the magnitudes of the model's floats
\* that lie halfway between two hundredths: the product is rounded to a double
\* before round() sees it.
F64Mul100Sign(a) ==
  CASE a % 125 = 0 -> 0
    [] a \in {2675} -> 0
    [] a \in {8345} -> 1
    [] a \in {1005} -> -1

\* Faulty variant: the digits after the first fractional digit are cut off.
FormatFixed1_Truncating(f) ==
  CASE f.cls = "nan" -> <<"N","a","N">>
    [] f.cls = "inf" -> <<"i","n","f">>
    [] f.cls = "ninf" -> <<"-","i","n","f">>
    [] OTHER ->
         LET t == Abs(f.m) \div 100
         IN  (IF f.m < 0 THEN <<"-">> ELSE <<>>)
             \o NatToString(t \div 10) \o <<".">> \o <<Digit(t % 10)>>

\* format!("{:.1}", v): the exact value of the double rounded to one
\* fractional digit, an exact tie going to the even digit.
FormatFixed1(f) ==
  CASE f.cls = "nan" -> <<"N","a","N">>
    [] f.cls = "inf" -> <<"i","n","f">>
    [] f.cls = "ninf" -> <<"-","i","n","f">>
    [] OTHER ->
         LET a == Abs(f.m)
             q == a \div 100
             r == a % 100
             up == \/ r > 50
                   \/ r = 50 /\ F64ErrSign(a) > 0
                   \/ r = 50 /\ F64ErrSign(a) = 0 /\ q % 2 = 1
             t == IF up THEN q + 1 ELSE q
         IN  (IF f.m < 0 THEN <<"-">> ELSE <<>>)
             \o NatToString(t \div 10) \o <<".">> \o <<Digit(t % 10)>>

\* (v * 100.0).round() / 100.0: round() takes a tie away from zero.
RoundPriority(f) ==
  IF f.cls # "fin" THEN f
  ELSE LET a == Abs(f.m)
           q == a \div 10
           r == a % 10
           up == \/ r > 5
                 \/ r = 5 /\ F64Mul100Sign(a) >= 0
           h == IF up THEN q + 1 ELSE q
       IN  Fin((IF f.m < 0 THEN -h ELSE h) * 10)

(***************************************************************************)
(* csv::Writer with its default settings: comma delimiter, "\n" record     *)
(* terminator, a field quoted only when it holds a comma, a quote, "\r" or *)
(* "\n", a quote inside a quoted field doubled, every record as long as    *)
(* the first one.                                                          *)
(***************************************************************************)
NeedsQuotes(field) ==
  \E i \in 1..Len(field) : field[i] \in {",", "\"", "\r", "\n"}

RECURSIVE DoubleQuotes(_)
DoubleQuotes(field) ==
  IF field = <<>> THEN <<>>
  ELSE (IF Head(field) = "\"" THEN <<"\"", "\"">> ELSE <<Head(field)>>)
       \o DoubleQuotes(Tail(field))

WriteField(field) ==
  IF NeedsQuotes(field) THEN <<"\"">> \o DoubleQuotes(field) \o <<"\"">>
  ELSE field

RECURSIVE WriteFields(_)
WriteFields(record) ==
  CASE Len(record) = 0 -> <<>>
    [] Len(record) = 1 -> WriteField(record[1])
    [] OTHER -> WriteField(Head(record)) \o <<",">> \o WriteFields(Tail(record))

NewWriter == [buf |-> <<>>, first_field_count |-> 0, ok |-> TRUE]

\* Writer::write_record: the fields, then the terminator; a record that wrote
\* no byte is written as two quotes; a record whose length differs from the
\* first record's is an error.
write_record(wtr, record) ==
  LET bytes == WriteFields(record)
      line == (IF bytes = <<>> THEN <<"\"", "\"">> ELSE bytes) \o <<"\n">>
  IN  CASE ~wtr.ok -> wtr
        [] wtr.buf = <<>> /\ wtr.first_field_count = 0 ->
             [buf |-> line, first_field_count |-> Len(record), ok |-> TRUE]
        [] wtr.first_field_count # Len(record) ->
             [wtr EXCEPT !.ok = FALSE]
        [] OTHER -> [wtr EXCEPT !.buf = wtr.buf \o line]

(***************************************************************************)
(* CSV serialization.                                                      *)
(***************************************************************************)
\* Faulty variant: the header lacks the cms column.
CSV_FIELDS_WithoutCms ==
  << <<"n","a","m","e">>,
     <<"w","e","b","s","i","t","e">>,
     <<"p","h","o","n","e">>,
     <<"a","d","d","r","e","s","s">>,
     <<"e","m","a","i","l","s">>,
     <<"r","a","t","i","n","g">>,
     <<"r","e","v","i","e","w","_","c","o","u","n","t">>,
     <<"f","i","t","_","s","c","o","r","e">>,
     <<"o","p","p","o","r","t","u","n","i","t","y","_","s","c","o","r","e">>,
     <<"p","r","i","o","r","i","t","y","_","s","c","o","r","e">>,
     <<"o","p","p","o","r","t","u","n","i","t","y","_","n","o","t","e","s">>,
     <<"f","o","u","n","d","_","i","n","_","a","d","s">>,
     <<"f","o","u","n","d","_","i","n","_","m","a","p","s">>,
     <<"f","o","u","n","d","_","i","n","_","o","r","g","a","n","i","c">>,
     <<"h","a","s","_","g","o","o","g","l","e","_","a","n","a","l","y","t","i","c","s">>,
     <<"h","a","s","_","b","o","o","k","i","n","g","_","s","y","s","t","e","m">> >>

CSV_FIELDS ==
  << <<"n","a","m","e">>,
     <<"w","e","b","s","i","t","e">>,
     <<"p","h","o","n","e">>,
     <<"a","d","d","r","e","s","s">>,
     <<"e","m","a","i","l","s">>,
     <<"r","a","t","i","n","g">>,
     <<"r","e","v","i","e","w","_","c","o","u","n","t">>,
     <<"f","i","t","_","s","c","o","r","e">>,
     <<"o","p","p","o","r","t","u","n","i","t","y","_","s","c","o","r","e">>,
     <<"p","r","i","o","r","i","t","y","_","s","c","o","r","e">>,
     <<"o","p","p","o","r","t","u","n","i","t","y","_","n","o","t","e","s">>,
     <<"f","o","u","n","d","_","i","n","_","a","d","s">>,
     <<"f","o","u","n","d","_","i","n","_","m","a","p","s">>,
     <<"f","o","u","n","d","_","i","n","_","o","r","g","a","n","i","c">>,
     <<"c","m","s">>,
     <<"h","a","s","_","g","o","o","g","l","e","_","a","n","a","l","y","t","i","c","s">>,
     <<"h","a","s","_","b","o","o","k","i","n","g","_","s","y","s","t","e","m">> >>

\* Faulty variant: the elements are joined by ";" alone.
RECURSIVE Join_NoSpace(_, _)
Join_NoSpace(list, sep) ==
  CASE Len(list) = 0 -> <<>>
    [] Len(list) = 1 -> list[1]
    [] OTHER -> Head(list) \o <<";">> \o Join_NoSpace(Tail(list), sep)

\* [String]::join
RECURSIVE Join(_, _)
Join(list, sep) ==
  CASE Len(list) = 0 -> <<>>
    [] Len(list) = 1 -> list[1]
    [] OTHER -> Head(list) \o sep \o Join(Tail(list), sep)

\* The record serialize_prospects_csv builds for one prospect.
csv_record(p) ==
  LET signals == extract_signals(p)
      cms == IF signals.some
             THEN str_or_empty(extract_opt_string(signals.v, "cms"))
             ELSE <<>>
      has_analytics ==
        IF signals.some
        THEN LET o == extract_opt_bool(signals.v, "has_google_analytics")
             IN  IF o.some THEN o.v ELSE FALSE
        ELSE FALSE
      has_booking ==
        IF signals.some
        THEN LET o == extract_opt_bool(signals.v, "has_booking_system")
             IN  IF o.some THEN o.v ELSE FALSE
        ELSE FALSE
      emails == Join(extract_string_list(p, "emails"), <<";", " ">>)
      rating == LET o == extract_opt_f64(p, "rating")
                IN  IF o.some THEN F64ToString(o.v) ELSE <<>>
      review_count == LET o == extract_opt_i64(p, "review_count")
                      IN  IF o.some THEN I64ToString(o.v) ELSE <<>>
      fit_score == LET o == extract_opt_i64(p, "fit_score")
                   IN  IF o.some THEN I64ToString(o.v) ELSE <<"0">>
      opp_score == LET o == extract_opt_i64(p, "opportunity_score")
                   IN  IF o.some THEN I64ToString(o.v) ELSE <<"0">>
      priority == LET o == extract_opt_f64(p, "priority_score")
                  IN  IF o.some THEN FormatFixed1(o.v) ELSE <<"0", ".", "0">>
  IN  << str_or_empty(extract_opt_string(p, "name")),
         str_or_empty(extract_opt_string(p, "website")),
         str_or_empty(extract_opt_string(p, "phone")),
         str_or_empty(extract_opt_string(p, "address")),
         emails,
         rating,
         review_count,
         fit_score,
         opp_score,
         priority,
         str_or_empty(extract_opt_string(p, "opportunity_notes")),
         yes_no(extract_bool(p, "found_in_ads")),
         yes_no(extract_bool(p, "found_in_maps")),
         yes_no(extract_bool(p, "found_in_organic")),
         cms,
         yes_no(has_analytics),
         yes_no(has_booking) >>

\* Faulty variant: the rows are written last record first.
RECURSIVE WriteRecords_Reversed(_, _)
WriteRecords_Reversed(wtr, list) ==
  IF list = <<>> THEN wtr
  ELSE write_record(WriteRecords_Reversed(wtr, Tail(list)),
                    csv_record(Head(list)))

RECURSIVE WriteRecords(_, _)
WriteRecords(wtr, list) ==
  IF list = <<>> THEN wtr
  ELSE WriteRecords(write_record(wtr, csv_record(Head(list))), Tail(list))

\* The PyResult<String> of the call: the whole text, or an error.
serialize_prospects_csv(list) ==
  LET wtr == WriteRecords(write_record(NewWriter, CSV_FIELDS), list)
  IN  IF wtr.ok THEN Ok(wtr.buf) ELSE Err(<<>>)

(***************************************************************************)
(* serde_json::Value, of uniform shape tagged by `t`.  A number made from  *)
(* an f64 that is not finite is Null.                                      *)
(***************************************************************************)
Json(t, b, n, f, s, a, o) ==
  [t |-> t, b |-> b, n |-> n, f |-> f, s |-> s, a |-> a, o |-> o]
JsonNull == Json("null", FALSE, 0, Fin(0), <<>>, <<>>, EmptyMap)
JsonBool(b) == Json("bool", b, 0, Fin(0), <<>>, <<>>, EmptyMap)
JsonInt(n) == Json("int", FALSE, n, Fin(0), <<>>, <<>>, EmptyMap)
JsonFloat(f) == Json("float", FALSE, 0, f, <<>>, <<>>, EmptyMap)
JsonString(s) == Json("string", FALSE, 0, Fin(0), s, <<>>, EmptyMap)
JsonArray(a) == Json("array", FALSE, 0, Fin(0), <<>>, a, EmptyMap)
JsonObject(o) == Json("object", FALSE, 0, Fin(0), <<>>, <<>>, o)

\* serde_json::Number::from_f64, as json!(f64) and json_opt_f64 use it.
JsonFromF64(f) == IF f.cls = "fin" THEN JsonFloat(f) ELSE JsonNull

\* json!(Option<bool>)
JsonFromOptBool(opt) == IF opt.some THEN JsonBool(opt.v) ELSE JsonNull

JsonStringArray(list) == JsonArray([i \in 1..Len(list) |-> JsonString(list[i])])

json_opt_str(opt) == IF opt.some THEN JsonString(opt.v) ELSE JsonNull

\* Faulty variant: an absent integer is written as 0.
json_opt_i64_Zero(opt) == IF opt.some THEN JsonInt(opt.v) ELSE JsonInt(0)

json_opt_i64(opt) == IF opt.some THEN JsonInt(opt.v) ELSE JsonNull

json_opt_f64(opt) == IF opt.some THEN JsonFromF64(opt.v) ELSE JsonNull

\* serde_json::Map::insert
Insert(map, key, value) ==
  [k \in (DOMAIN map) \cup {key} |-> IF k = key THEN value ELSE map[k]]

signals_to_json_value(sig) ==
  JsonObject(
    [reachable |-> JsonFromOptBool(extract_opt_bool(sig, "reachable")),
     cms |-> json_opt_str(extract_opt_string(sig, "cms")),
     tracking |-> JsonObject(
       [google_analytics |->
          JsonFromOptBool(extract_opt_bool(sig, "has_google_analytics")),
        facebook_pixel |->
          JsonFromOptBool(extract_opt_bool(sig, "has_facebook_pixel")),
        google_ads |->
          JsonFromOptBool(extract_opt_bool(sig, "has_google_ads"))]),
     has_booking_system |->
       JsonFromOptBool(extract_opt_bool(sig, "has_booking_system")),
     load_time_ms |-> json_opt_i64(extract_opt_i64(sig, "load_time_ms")),
     title |-> json_opt_str(extract_opt_string(sig, "title")),
     meta_description |->
       json_opt_str(extract_opt_string(sig, "meta_description")),
     social_links |->
       JsonStringArray(extract_string_list(sig, "social_links"))])

prospect_to_json_value(p) ==
  LET emails == extract_string_list(p, "emails")
      signals == extract_signals(p)
      serp == JsonObject(
        [ads |-> JsonObject(
           [found |-> JsonBool(extract_bool(p, "found_in_ads")),
            position |-> json_opt_i64(extract_opt_i64(p, "ad_position"))]),
         maps |-> JsonObject(
           [found |-> JsonBool(extract_bool(p, "found_in_maps")),
            position |-> json_opt_i64(extract_opt_i64(p, "maps_position"))]),
         organic |-> JsonObject(
           [found |-> JsonBool(extract_bool(p, "found_in_organic")),
            position |->
              json_opt_i64(extract_opt_i64(p, "organic_position"))])])
      gb == JsonObject(
        [rating |-> json_opt_f64(extract_opt_f64(p, "rating")),
         review_count |-> json_opt_i64(extract_opt_i64(p, "review_count")),
         category |-> json_opt_str(extract_opt_string(p, "category"))])
      priority == LET o == extract_opt_f64(p, "priority_score")
                  IN  IF o.some THEN RoundPriority(o.v) ELSE Fin(0)
      fit == LET o == extract_opt_i64(p, "fit_score")
             IN  IF o.some THEN o.v ELSE 0
      opportunity == LET o == extract_opt_i64(p, "opportunity_score")
                     IN  IF o.some THEN o.v ELSE 0
      scores == JsonObject(
        [fit |-> JsonInt(fit),
         opportunity |-> JsonInt(opportunity),
         priority |-> JsonFromF64(priority)])
      data ==
        [name |-> json_opt_str(extract_opt_string(p, "name")),
         website |-> json_opt_str(extract_opt_string(p, "website")),
         domain |-> json_opt_str(extract_opt_string(p, "domain")),
         phone |-> json_opt_str(extract_opt_string(p, "phone")),
         address |-> json_opt_str(extract_opt_string(p, "address")),
         emails |-> JsonStringArray(emails),
         serp_presence |-> serp,
         google_business |-> gb,
         scores |-> scores,
         opportunity_notes |->
           json_opt_str(extract_opt_string(p, "opportunity_notes")),
         source |-> json_opt_str(extract_opt_string(p, "source")),
         scraped_at |-> json_opt_str(extract_opt_string(p, "scraped_at"))]
  IN  IF signals.some
      THEN JsonObject(Insert(data, "signals", signals_to_json_value(signals.v)))
      ELSE JsonObject(data)

\* The PyResult<String> of the call: the text of the array of the records'
\* values, laid out as `pretty` asks.
serialize_prospects_json(list, pretty) ==
  Ok([items |-> [i \in 1..Len(list) |-> prospect_to_json_value(list[i])],
      pretty |-> pretty])

(***************************************************************************)
(* HTML metadata.  A parsed document is the text of its first <title>      *)
(* element, the content attribute of its first <meta name='description'>   *)
(* element, and the href attributes of its <a href> elements in document   *)
(* order; `empty` says the raw text was the empty string.                  *)
(***************************************************************************)
SOCIAL_DOMAINS ==
  << <<"f","a","c","e","b","o","o","k",".","c","o","m">>,
     <<"i","n","s","t","a","g","r","a","m",".","c","o","m">>,
     <<"t","w","i","t","t","e","r",".","c","o","m">>,
     <<"l","i","n","k","e","d","i","n",".","c","o","m">>,
     <<"y","o","u","t","u","b","e",".","c","o","m">>,
     <<"t","i","k","t","o","k",".","c","o","m">> >>

\* str::contains
Contains(text, pat) ==
  \E i \in 0..(Len(text) - Len(pat)) : SubSeq(text, i + 1, i + Len(pat)) = pat

IsSpace(c) == c \in {" ", "\n", "\t", "\r"}

\* str::trim
RECURSIVE TrimStart(_)
TrimStart(text) ==
  IF text # <<>> /\ IsSpace(Head(text)) THEN TrimStart(Tail(text)) ELSE text

RECURSIVE TrimEnd(_)
TrimEnd(text) ==
  IF text # <<>> /\ IsSpace(text[Len(text)])
  THEN TrimEnd(SubSeq(text, 1, Len(text) - 1))
  ELSE text

Trim(text) == TrimEnd(TrimStart(text))

\* Option::filter(|s| !s.is_empty())
FilterNonEmpty(opt) == IF opt.some /\ opt.v # <<>> THEN opt ELSE None(<<>>)

\* Faulty variant: the href is pushed without looking for it in the list.
RECURSIVE push_social_link_NoDedup(_, _, _)
push_social_link_NoDedup(social_links, href, j) ==
  IF j > Len(SOCIAL_DOMAINS) THEN social_links
  ELSE IF Contains(href, SOCIAL_DOMAINS[j])
       THEN Append(social_links, href)
       ELSE push_social_link_NoDedup(social_links, href, j + 1)

\* The loop over SOCIAL_DOMAINS for one href, from the j-th domain on: the
\* first domain the href contains pushes it, unless it is in the list, and
\* ends the loop.
RECURSIVE push_social_link(_, _, _)
push_social_link(social_links, href, j) ==
  IF j > Len(SOCIAL_DOMAINS) THEN social_links
  ELSE IF /\ Contains(href, SOCIAL_DOMAINS[j])
          /\ ~\E i \in 1..Len(social_links) : social_links[i] = href
       THEN Append(social_links, href)
       ELSE push_social_link(social_links, href, j + 1)

RECURSIVE collect_social_links(_, _)
collect_social_links(social_links, links) ==
  IF links = <<>> THEN social_links
  ELSE collect_social_links(push_social_link(social_links, Head(links), 1),
                            Tail(links))

extract_html_metadata(doc) ==
  IF doc.empty
  THEN Ok([title |-> None(<<>>),
           meta_description |-> None(<<>>),
           social_links |-> <<>>])
  ELSE Ok([title |->
             FilterNonEmpty(IF doc.title.some THEN Some(Trim(doc.title.v))
                            ELSE None(<<>>)),
           meta_description |-> FilterNonEmpty(doc.meta_content),
           social_links |-> collect_social_links(<<>>, doc.links)])

(***************************************************************************)
(* The inputs the calls are made with.                                     *)
(***************************************************************************)
S_AcmeCafe == <<"A","c","m","e"," ","C","a","f","e">>
S_BetaShop == <<"B","e","t","a"," ","S","h","o","p">>
S_Wordpress == <<"W","o","r","d","p","r","e","s","s">>
S_Comma == <<"a",",","b">>
S_Quote == <<"a","\"","b">>
S_Newline == <<"a","\n","b">>
S_Return == <<"a","\r","b">>
S_EmailA == <<"a","@","x",".","c","o","m">>
S_EmailB == <<"b","@","y",".","c","o","m">>

TopStringKeys ==
  {"name", "website", "domain", "phone", "address", "category",
   "opportunity_notes", "source", "scraped_at"}
TopIntKeys ==
  {"ad_position", "maps_position", "organic_position", "review_count",
   "fit_score", "opportunity_score"}
TopFloatKeys == {"rating", "priority_score"}
TopBoolKeys == {"found_in_ads", "found_in_maps", "found_in_organic"}
TopKeys ==
  TopStringKeys \cup TopIntKeys \cup TopFloatKeys \cup TopBoolKeys
  \cup {"emails", "signals"}

SigStringKeys == {"cms", "title", "meta_description"}
SigBoolKeys ==
  {"reachable", "has_google_analytics", "has_facebook_pixel",
   "has_google_ads", "has_booking_system"}
SigKeys == SigStringKeys \cup SigBoolKeys \cup {"load_time_ms", "social_links"}

\* The type the encoders read a key as.
KeyType(k) ==
  CASE k \in TopStringKeys \cup SigStringKeys -> "str"
    [] k \in TopIntKeys \cup {"load_time_ms"} -> "int"
    [] k \in TopFloatKeys -> "float"
    [] k \in TopBoolKeys \cup SigBoolKeys -> "bool"
    [] k \in {"emails", "social_links"} -> "list"
    [] k = "signals" -> "dict"

AcmeSignals ==
  [cms |-> PyStr(S_Wordpress), has_google_analytics |-> PyBool(TRUE)]

\* One object or two of every kind.
GenericValues ==
  {PyNone, PyBool(TRUE), PyBool(FALSE), PyInt(12), PyFloat(Fin(4500)),
   PyStr(S_Wordpress), PyList(<<>>), PyList(<<PyStr(S_EmailA)>>),
   PyList(<<PyStr(S_EmailA), PyInt(5)>>), PyDict(EmptyMap),
   PyDict(AcmeSignals)}

StringValues ==
  {PyStr(s) : s \in {<<>>, S_AcmeCafe, S_Comma, S_Quote, S_Newline, S_Return}}

IntValues == {PyInt(n) : n \in {0, 80, 83, -7}}

FiniteFloats ==
  {0, 83456, 83460, 91270, 250, 350, 450, 750, 125, 1005, 2675, 8345,
   -250, -125, -83460}

FloatValues ==
  {PyFloat(Fin(m)) : m \in FiniteFloats}
  \cup {PyFloat(NaN), PyFloat(PosInf), PyFloat(NegInf)}

EmailPool == {S_EmailA, S_EmailB, S_Comma}

SeqsUpTo(S, n) == UNION {[1..k -> S] : k \in 0..n}

ListValues ==
  {PyList([i \in 1..Len(l) |-> PyStr(l[i])]) : l \in SeqsUpTo(EmailPool, MaxEmails)}

ValuesFor(k) ==
  GenericValues \cup
  CASE KeyType(k) = "str" -> StringValues
    [] KeyType(k) = "int" -> IntValues
    [] KeyType(k) = "float" -> FloatValues
    [] KeyType(k) = "list" -> ListValues
    [] OTHER -> {}

SetKey(map, key, value) ==
  [k \in (DOMAIN map) \cup {key} |-> IF k = key THEN value ELSE map[k]]

RemoveKey(map, key) == [k \in (DOMAIN map) \ {key} |-> map[k]]

Beta == [name |-> PyStr(S_BetaShop)]

Acme ==
  [name |-> PyStr(S_AcmeCafe),
   found_in_ads |-> PyBool(TRUE),
   rating |-> PyFloat(Fin(4500)),
   review_count |-> PyInt(12),
   fit_score |-> PyInt(80),
   priority_score |-> PyFloat(Fin(91270)),
   signals |-> PyDict(AcmeSignals)]

\* A record that differs from Acme or Beta in one key, at top level or
\* inside signals.
OneKeyRecords ==
  {SetKey(base, k, v) : <<base, k, v>> \in
     {<<b, k, v>> \in {Acme, Beta} \X TopKeys \X
        UNION {ValuesFor(k) : k \in TopKeys} : v \in ValuesFor(k)}}
  \cup
  {SetKey(Acme, "signals", PyDict(SetKey(AcmeSignals, k, v))) : <<k, v>> \in
     {<<k, v>> \in SigKeys \X UNION {ValuesFor(k) : k \in SigKeys} :
        v \in ValuesFor(k)}}

ListPool == {Acme, Beta, SetKey(Beta, "name", PyStr(S_Newline)), EmptyMap}

ProspectLists ==
  {<<r>> : r \in OneKeyRecords} \cup SeqsUpTo(ListPool, MaxRecords)

H_Facebook == <<"/","/","f","a","c","e","b","o","o","k",".","c","o","m","/","a">>
H_Share ==
  <<"/","/","t","w","i","t","t","e","r",".","c","o","m","/","?","u","=",
    "f","a","c","e","b","o","o","k",".","c","o","m">>
H_Plain == <<"/","/","e","x","a","m","p","l","e",".","c","o","m">>
H_TikTok == <<"/","/","t","i","k","t","o","k",".","c","o","m","/","@","a">>
H_Near == <<"/","/","f","a","c","e","b","o","o","k",".","c","o">>

HrefPool == {H_Facebook, H_Share, H_Plain, H_TikTok, H_Near}

TitlePool ==
  {None(<<>>), Some(<<>>), Some(<<" ", "\n">>), Some(<<" ", "A", " ", "b", " ">>)}

MetaPool == {None(<<>>), Some(<<>>), Some(S_AcmeCafe)}

EmptyHtml ==
  [empty |-> TRUE, title |-> None(<<>>), meta_content |-> None(<<>>),
   links |-> <<>>]

Documents ==
  {[empty |-> FALSE, title |-> t, meta_content |-> m, links |-> <<>>] :
     <<t, m>> \in TitlePool \X MetaPool}
  \cup
  {[empty |-> FALSE, title |-> Some(S_AcmeCafe), meta_content |-> None(<<>>),
    links |-> l] : l \in SeqsUpTo(HrefPool, MaxLinks)}

(***************************************************************************)
(* The state machine: the arguments a caller holds, and what each of the   *)
(* three functions returned once it was called with them.                  *)
(***************************************************************************)
Pending(dflt) == [called |-> FALSE, ok |-> FALSE, v |-> dflt]
Returned(res) == [called |-> TRUE, ok |-> res.ok, v |-> res.v]

NoJson == [items |-> <<>>, pretty |-> FALSE]
NoMeta ==
  [title |-> None(<<>>), meta_description |-> None(<<>>), social_links |-> <<>>]

Init ==
  /\ \/ prospects \in ProspectLists /\ html = EmptyHtml
     \/ prospects = <<>> /\ html \in Documents
  /\ csv_out = Pending(<<>>)
  /\ json_out = Pending(NoJson)
  /\ meta_out = Pending(NoMeta)

SerializeProspectsCsv ==
  /\ ~csv_out.called
  /\ csv_out' = Returned(serialize_prospects_csv(prospects))
  /\ UNCHANGED <<prospects, html, json_out, meta_out>>

SerializeProspectsJson(pretty) ==
  /\ ~json_out.called
  /\ json_out' = Returned(serialize_prospects_json(prospects, pretty))
  /\ UNCHANGED <<prospects, html, csv_out, meta_out>>

ExtractHtmlMetadata ==
  /\ ~meta_out.called
  /\ meta_out' = Returned(extract_html_metadata(html))
  /\ UNCHANGED <<prospects, html, csv_out, json_out>>

Next ==
  \/ SerializeProspectsCsv
  \/ \E pretty \in BOOLEAN : SerializeProspectsJson(pretty)
  \/ ExtractHtmlMetadata

Spec == Init /\ [][Next]_vars

(***************************************************************************)
(* Reading the outputs back, for the properties below.                     *)
(***************************************************************************)
\* Reading a delimited text: a comma or a line feed separates only outside
\* quotes, that is after an even number of quote characters; a field that
\* opens with a quote loses its outer quotes, and a doubled quote inside it
\* is one quote.
QuotesIn(text, i, j) == Cardinality({k \in i..j : text[k] = "\""})

NextSep(text, i, sep) ==
  LET S == {j \in i..Len(text) :
              /\ text[j] = sep
              /\ (sep = "," /\ text[i] # "\"")
                 \/ QuotesIn(text, i, j - 1) % 2 = 0}
  IN  IF S = {} THEN Len(text) + 1
      ELSE CHOOSE j \in S : \A k \in S : j <= k

RECURSIVE UnDouble(_)
UnDouble(field) ==
  CASE field = <<>> -> <<>>
    [] field # <<>> /\ Head(field) = "\"" ->
         <<"\"">> \o UnDouble(SubSeq(field, 3, Len(field)))
    [] OTHER -> <<Head(field)>> \o UnDouble(Tail(field))

Unquote(piece) ==
  IF piece # <<>> /\ piece[1] = "\""
  THEN UnDouble(SubSeq(piece, 2, Len(piece) - 1))
  ELSE piece

RECURSIVE CsvFields(_, _)
CsvFields(line, i) ==
  LET e == NextSep(line, i, ",")
      field == Unquote(SubSeq(line, i, e - 1))
  IN  IF e > Len(line) THEN <<field>> ELSE <<field>> \o CsvFields(line, e + 1)

RECURSIVE CsvRecords(_, _)
CsvRecords(text, i) ==
  IF i > Len(text) THEN <<>>
  ELSE LET e == NextSep(text, i, "\n")
       IN  <<CsvFields(SubSeq(text, i, e - 1), 1)>> \o CsvRecords(text, e + 1)

CsvRows(text) == CsvRecords(text, 1)

LineBreaks == {"\n", "\r"}

\* The number of lines of a text, each ended by a line break.
NumLines(text) ==
  Cardinality({i \in 1..Len(text) : text[i] \in LineBreaks})
  + (IF text # <<>> /\ text[Len(text)] \notin LineBreaks THEN 1 ELSE 0)

HasLineBreak(field) == \E i \in 1..Len(field) : field[i] \in LineBreaks

HeaderLine ==
  <<"n","a","m","e",",","w","e","b","s","i","t","e",",","p","h","o","n","e",
    ",","a","d","d","r","e","s","s",",","e","m","a","i","l","s",",","r","a",
    "t","i","n","g",",","r","e","v","i","e","w","_","c","o","u","n","t",",",
    "f","i","t","_","s","c","o","r","e",",","o","p","p","o","r","t","u","n",
    "i","t","y","_","s","c","o","r","e",",","p","r","i","o","r","i","t","y",
    "_","s","c","o","r","e",",","o","p","p","o","r","t","u","n","i","t","y",
    "_","n","o","t","e","s",",","f","o","u","n","d","_","i","n","_","a","d",
    "s",",","f","o","u","n","d","_","i","n","_","m","a","p","s",",","f","o",
    "u","n","d","_","i","n","_","o","r","g","a","n","i","c",",","c","m","s",
    ",","h","a","s","_","g","o","o","g","l","e","_","a","n","a","l","y","t",
    "i","c","s",",","h","a","s","_","b","o","o","k","i","n","g","_","s","y",
    "s","t","e","m">>

\* The key holds an object of the given kind.
Holds(map, key, kind) == key \in DOMAIN map /\ map[key].kind = kind

SignalsPresent(p) == Holds(p, "signals", "dict")

\* The data rows of the CSV output, once the call has returned a text.
DataRow(i) == CsvRows(csv_out.v)[i + 1]

JsonItem(i) == json_out.v.items[i].o

(***************************************************************************)
(* C1.  The CSV output has a header row and one row per record that hold   *)
(* exactly 17 fields each, the header naming the columns in the fixed      *)
(* order, whichever optional fields (signals included) are present, absent *)
(* or mistyped.                                                            *)
(***************************************************************************)
C1_SeventeenColumns ==
  csv_out.called =>
    /\ csv_out.ok
    /\ LET rows == CsvRows(csv_out.v)
       IN  /\ Len(rows) >= 1
           /\ SubSeq(csv_out.v, 1, Len(HeaderLine) + 1) = HeaderLine \o <<"\n">>
           /\ \A i \in 1..Len(rows) : Len(rows[i]) = 17

C1_Witness ==
  /\ csv_out.called
  /\ Len(prospects) = 1
  /\ "signals" \in DOMAIN prospects[1]
  /\ prospects[1]["signals"].kind = "str"
  /\ "rating" \notin DOMAIN prospects[1]

(***************************************************************************)
(* C2.  As claimed: for a non-empty list of N records the text has exactly *)
(* N+1 lines, whatever the string fields hold.                             *)
(***************************************************************************)
C2_LinesAsClaimed ==
  (csv_out.called /\ Len(prospects) >= 1) =>
    /\ csv_out.ok
    /\ NumLines(csv_out.v) = Len(prospects) + 1

(***************************************************************************)
(* C2, amended.  The text holds exactly N+1 CSV records, the header and    *)
(* then one per input record in input order; it has exactly N+1 lines when *)
(* no exported field holds a line break, and one more line for every line  *)
(* break inside a field.                                                   *)
(***************************************************************************)
BreaksIn(field) == Cardinality({i \in 1..Len(field) : field[i] \in LineBreaks})

RECURSIVE SumBreaks(_)
SumBreaks(row) ==
  IF row = <<>> THEN 0 ELSE BreaksIn(Head(row)) + SumBreaks(Tail(row))

RECURSIVE SumRowBreaks(_)
SumRowBreaks(rows) ==
  IF rows = <<>> THEN 0 ELSE SumBreaks(Head(rows)) + SumRowBreaks(Tail(rows))

C2_RecordsAndLines ==
  (csv_out.called /\ Len(prospects) >= 1) =>
    /\ csv_out.ok
    /\ LET rows == CsvRows(csv_out.v)
       IN  /\ Len(rows) = Len(prospects) + 1
           /\ \A i \in 1..Len(prospects) :
                rows[i + 1][1] = (IF Holds(prospects[i], "name", "str")
                                  THEN prospects[i]["name"].s ELSE <<>>)
           /\ NumLines(csv_out.v) = Len(prospects) + 1 + SumRowBreaks(rows)
           /\ (\A i \in 1..Len(rows) : \A j \in 1..Len(rows[i]) :
                 ~HasLineBreak(rows[i][j]))
              => NumLines(csv_out.v) = Len(prospects) + 1

C2_Witness ==
  /\ csv_out.called
  /\ Len(prospects) = 2
  /\ prospects[1] = Beta
  /\ Holds(prospects[2], "name", "str")
  /\ HasLineBreak(prospects[2]["name"].s)

(***************************************************************************)
(* C3.  The JSON object of a record has a `signals` key exactly when the   *)
(* record's signals sub-record is present; a present sub-record with no    *)
(* populated field gives an object of nulls and an empty list; a record    *)
(* with no signals sub-record has an empty cms cell and "No" in both       *)
(* has_google_analytics and has_booking_system.                            *)
(***************************************************************************)
EmptySignalsJson ==
  JsonObject(
    [reachable |-> JsonNull,
     cms |-> JsonNull,
     tracking |-> JsonObject([google_analytics |-> JsonNull,
                              facebook_pixel |-> JsonNull,
                              google_ads |-> JsonNull]),
     has_booking_system |-> JsonNull,
     load_time_ms |-> JsonNull,
     title |-> JsonNull,
     meta_description |-> JsonNull,
     social_links |-> JsonArray(<<>>)])

C3_SignalsAsUnit ==
  /\ json_out.called =>
       \A i \in 1..Len(prospects) :
         /\ ("signals" \in DOMAIN JsonItem(i)) <=> SignalsPresent(prospects[i])
         /\ (SignalsPresent(prospects[i])
             /\ DOMAIN prospects[i]["signals"].d = {})
            => JsonItem(i)["signals"] = EmptySignalsJson
  /\ csv_out.called =>
       \A i \in 1..Len(prospects) :
         "signals" \notin DOMAIN prospects[i] =>
           /\ DataRow(i)[15] = <<>>
           /\ DataRow(i)[16] = <<"N", "o">>
           /\ DataRow(i)[17] = <<"N", "o">>

C3_Witness ==
  /\ json_out.called
  /\ csv_out.called
  /\ Len(prospects) = 1
  /\ SignalsPresent(prospects[1])
  /\ DOMAIN prospects[1]["signals"].d = {}
  /\ "signals" \in DOMAIN JsonItem(1)

(***************************************************************************)
(* C4.  A value of the wrong type is treated as the key's absence: with    *)
(* the value of any key the encoders read, at top level or inside signals, *)
(* replaced by a value of a type the key does not have, both outputs are   *)
(* those of the list with the key removed, and neither call fails.         *)
(***************************************************************************)
\* The value is not of the type the encoders read the key as.  None stands
\* for an absent value; an integer is a number.
WrongType(k, obj) ==
  CASE obj.kind = "none" -> FALSE
    [] KeyType(k) = "float" -> obj.kind \notin {"float", "int"}
    [] KeyType(k) = "list" ->
         ~(obj.kind = "list" /\ \A i \in 1..Len(obj.l) : obj.l[i].kind = "str")
    [] OTHER -> obj.kind # KeyType(k)

WithoutKey(list, i, k) == [list EXCEPT ![i] = RemoveKey(list[i], k)]

WithoutSignalsKey(list, i, k) ==
  [list EXCEPT ![i] =
     SetKey(list[i], "signals", PyDict(RemoveKey(list[i]["signals"].d, k)))]

SameAsWithout(list) ==
  /\ csv_out.called => (csv_out.ok /\ csv_out.v = serialize_prospects_csv(list).v)
  /\ json_out.called =>
       /\ json_out.ok
       /\ json_out.v.items = serialize_prospects_json(list, FALSE).v.items

C4_MismatchIsAbsence ==
  \A i \in 1..Len(prospects) :
    /\ \A k \in DOMAIN prospects[i] :
         WrongType(k, prospects[i][k])
           => SameAsWithout(WithoutKey(prospects, i, k))
    /\ SignalsPresent(prospects[i]) =>
         \A k \in DOMAIN prospects[i]["signals"].d :
           WrongType(k, prospects[i]["signals"].d[k])
             => SameAsWithout(WithoutSignalsKey(prospects, i, k))

(***************************************************************************)
(* C8.  Each of the five boolean cells of a data row is "Yes" or "No":     *)
(* "Yes" exactly when the source field is present and is the boolean true  *)
(* (for the two signals flags: inside a present signals sub-record).       *)
(***************************************************************************)
IsTrue(map, key) == key \in DOMAIN map /\ map[key] = PyBool(TRUE)

YesNoCell(cell, yes) ==
  /\ cell \in {<<"Y", "e", "s">>, <<"N", "o">>}
  /\ (cell = <<"Y", "e", "s">>) <=> yes

C8_YesNoCells ==
  csv_out.called =>
    \A i \in 1..Len(prospects) :
      LET p == prospects[i]
          row == DataRow(i)
      IN  /\ YesNoCell(row[12], IsTrue(p, "found_in_ads"))
          /\ YesNoCell(row[13], IsTrue(p, "found_in_maps"))
          /\ YesNoCell(row[14], IsTrue(p, "found_in_organic"))
          /\ YesNoCell(row[16], SignalsPresent(p)
                                /\ IsTrue(p["signals"].d, "has_google_analytics"))
          /\ YesNoCell(row[17], SignalsPresent(p)
                                /\ IsTrue(p["signals"].d, "has_booking_system"))

C8_Witness ==
  /\ csv_out.called
  /\ Len(prospects) = 1
  /\ Holds(prospects[1], "found_in_maps", "int")
  /\ IsTrue(prospects[1], "found_in_ads")
  /\ DataRow(1)[12] = <<"Y", "e", "s">>
  /\ DataRow(1)[13] = <<"N", "o">>

(***************************************************************************)
(* C5.  As claimed: for every numeric priority_score the CSV cell has      *)
(* exactly one fractional digit and is the value rounded to the nearest    *)
(* tenth (83 gives "83.0", 83.46 gives "83.5", absent gives "0.0"), and    *)
(* JSON scores.priority is the value rounded to the nearest hundredth      *)
(* (83.456 gives 83.46, absent gives 0.0).                                 *)
(***************************************************************************)
IsDigit(c) == c \in {"0", "1", "2", "3", "4", "5", "6", "7", "8", "9"}

DigitValue(c) == CHOOSE d \in 0..9 : Digit(d) = c

RECURSIVE DigitsValue(_)
DigitsValue(digits) ==
  IF digits = <<>> THEN 0
  ELSE DigitsValue(SubSeq(digits, 1, Len(digits) - 1)) * 10
       + DigitValue(digits[Len(digits)])

Unsigned(cell) == IF cell # <<>> /\ cell[1] = "-" THEN Tail(cell) ELSE cell

OneFractionalDigit(cell) ==
  LET body == Unsigned(cell)
  IN  /\ Len(body) >= 3
      /\ body[Len(body) - 1] = "."
      /\ \A i \in (1..Len(body)) \ {Len(body) - 1} : IsDigit(body[i])

\* The value of a cell with one fractional digit, in tenths.
TenthsOf(cell) ==
  LET body == Unsigned(cell)
      t == DigitsValue(SubSeq(body, 1, Len(body) - 2)) * 10
           + DigitValue(body[Len(body)])
  IN  IF body = cell THEN t ELSE -t

IsNumeric(obj) == obj.kind \in {"int", "float"}

IsFiniteNumber(obj) == obj.kind = "int" \/ (obj.kind = "float" /\ obj.f.cls = "fin")

\* The value of a finite number, in thousandths.
Thousandths(obj) == IF obj.kind = "int" THEN obj.n * 1000 ELSE obj.f.m

JsonPriority(i) == JsonItem(i)["scores"].o["priority"]

NearestTenth(cell, obj) ==
  /\ OneFractionalDigit(cell)
  /\ Abs(TenthsOf(cell) * 100 - Thousandths(obj)) <= 50

NearestHundredth(json, obj) ==
  /\ json.t = "float"
  /\ json.f.cls = "fin"
  /\ json.f.m % 10 = 0
  /\ Abs(json.f.m - Thousandths(obj)) <= 5

PriorityExamples ==
  \A i \in 1..Len(prospects) :
    LET p == prospects[i]
    IN  /\ csv_out.called =>
             /\ "priority_score" \notin DOMAIN p => DataRow(i)[10] = <<"0", ".", "0">>
             /\ (Holds(p, "priority_score", "int") /\ p["priority_score"].n = 83)
                => DataRow(i)[10] = <<"8", "3", ".", "0">>
             /\ (Holds(p, "priority_score", "float")
                 /\ p["priority_score"].f = Fin(83460))
                => DataRow(i)[10] = <<"8", "3", ".", "5">>
        /\ json_out.called =>
             /\ "priority_score" \notin DOMAIN p => JsonPriority(i) = JsonFloat(Fin(0))
             /\ (Holds(p, "priority_score", "float")
                 /\ p["priority_score"].f = Fin(83456))
                => JsonPriority(i) = JsonFloat(Fin(83460))

C5_PriorityAsClaimed ==
  /\ PriorityExamples
  /\ \A i \in 1..Len(prospects) :
       ("priority_score" \in DOMAIN prospects[i]
        /\ IsNumeric(prospects[i]["priority_score"])) =>
         /\ csv_out.called
              => NearestTenth(DataRow(i)[10], prospects[i]["priority_score"])
         /\ json_out.called
              => NearestHundredth(JsonPriority(i), prospects[i]["priority_score"])

(***************************************************************************)
(* C5, amended.  The same for every finite numeric priority_score; a NaN   *)
(* or infinite priority_score gives the CSV cell "NaN", "inf" or "-inf"    *)
(* and JSON scores.priority null.                                          *)
(***************************************************************************)
C5_PriorityFinite ==
  /\ PriorityExamples
  /\ \A i \in 1..Len(prospects) :
       ("priority_score" \in DOMAIN prospects[i]
        /\ IsNumeric(prospects[i]["priority_score"])) =>
         LET obj == prospects[i]["priority_score"]
         IN  IF IsFiniteNumber(obj)
             THEN /\ csv_out.called => NearestTenth(DataRow(i)[10], obj)
                  /\ json_out.called => NearestHundredth(JsonPriority(i), obj)
             ELSE /\ csv_out.called =>
                       DataRow(i)[10] \in {<<"N", "a", "N">>, <<"i", "n", "f">>,
                                           <<"-", "i", "n", "f">>}
                  /\ json_out.called => JsonPriority(i) = JsonNull

C5_Witness ==
  /\ csv_out.called
  /\ json_out.called
  /\ Len(prospects) = 1
  /\ Holds(prospects[1], "priority_score", "float")
  /\ prospects[1]["priority_score"].f = Fin(83456)
  /\ DataRow(1)[10] = <<"8", "3", ".", "5">>
  /\ JsonPriority(1) = JsonFloat(Fin(83460))

(***************************************************************************)
(* C6.  As claimed: every JSON object has the twelve top-level keys; an    *)
(* absent scalar, each serp position and each google_business field        *)
(* included, is an explicit null; scores.fit and scores.opportunity are    *)
(* integers, 0 by default; scores.priority is always a number, 0.0 by      *)
(* default; each serp_presence found flag is a boolean, false by default.  *)
(***************************************************************************)
JsonTopKeys ==
  {"name", "website", "domain", "phone", "address", "emails", "serp_presence",
   "google_business", "scores", "opportunity_notes", "source", "scraped_at"}

NullWhenAbsent(json, p, key, types) ==
  /\ json.t \in types \cup {"null"}
  /\ key \notin DOMAIN p => json = JsonNull

SerpShape(json, p, found_key, position_key) ==
  /\ json.t = "object"
  /\ DOMAIN json.o = {"found", "position"}
  /\ json.o["found"].t = "bool"
  /\ found_key \notin DOMAIN p => json.o["found"] = JsonBool(FALSE)
  /\ NullWhenAbsent(json.o["position"], p, position_key, {"int"})

\* Everything the claim says but the type of scores.priority.
JsonShape(i) ==
  LET p == prospects[i]
      o == JsonItem(i)
  IN  /\ json_out.v.items[i].t = "object"
      /\ JsonTopKeys \subseteq DOMAIN o
      /\ \A k \in {"name", "website", "domain", "phone", "address",
                   "opportunity_notes", "source", "scraped_at"} :
           NullWhenAbsent(o[k], p, k, {"string"})
      /\ o["emails"].t = "array"
      /\ o["serp_presence"].t = "object"
      /\ DOMAIN o["serp_presence"].o = {"ads", "maps", "organic"}
      /\ SerpShape(o["serp_presence"].o["ads"], p, "found_in_ads", "ad_position")
      /\ SerpShape(o["serp_presence"].o["maps"], p, "found_in_maps",
                   "maps_position")
      /\ SerpShape(o["serp_presence"].o["organic"], p, "found_in_organic",
                   "organic_position")
      /\ o["google_business"].t = "object"
      /\ DOMAIN o["google_business"].o = {"rating", "review_count", "category"}
      /\ NullWhenAbsent(o["google_business"].o["rating"], p, "rating", {"float"})
      /\ NullWhenAbsent(o["google_business"].o["review_count"], p,
                        "review_count", {"int"})
      /\ NullWhenAbsent(o["google_business"].o["category"], p, "category",
                        {"string"})
      /\ o["scores"].t = "object"
      /\ DOMAIN o["scores"].o = {"fit", "opportunity", "priority"}
      /\ o["scores"].o["fit"].t = "int"
      /\ "fit_score" \notin DOMAIN p => o["scores"].o["fit"] = JsonInt(0)
      /\ o["scores"].o["opportunity"].t = "int"
      /\ "opportunity_score" \notin DOMAIN p
           => o["scores"].o["opportunity"] = JsonInt(0)
      /\ "priority_score" \notin DOMAIN p
           => o["scores"].o["priority"] = JsonFloat(Fin(0))

C6_ShapeAsClaimed ==
  json_out.called =>
    /\ json_out.ok
    /\ Len(json_out.v.items) = Len(prospects)
    /\ \A i \in 1..Len(prospects) :
         /\ JsonShape(i)
         /\ JsonPriority(i).t = "float"

(***************************************************************************)
(* C6, amended.  The same, except that scores.priority is a number unless  *)
(* priority_score is a NaN or infinite float, and then it is null.         *)
(***************************************************************************)
NonFinitePriority(p) ==
  /\ Holds(p, "priority_score", "float")
  /\ p["priority_score"].f.cls # "fin"

C6_ShapeFinitePriority ==
  json_out.called =>
    /\ json_out.ok
    /\ Len(json_out.v.items) = Len(prospects)
    /\ \A i \in 1..Len(prospects) :
         /\ JsonShape(i)
         /\ IF NonFinitePriority(prospects[i])
            THEN JsonPriority(i) = JsonNull
            ELSE JsonPriority(i).t = "float" /\ JsonPriority(i).f.cls = "fin"

C6_Witness ==
  /\ json_out.called
  /\ Len(prospects) = 1
  /\ prospects[1] = Beta
  /\ JsonItem(1)["website"] = JsonNull
  /\ JsonItem(1)["serp_presence"].o["maps"].o["position"] = JsonNull
  /\ JsonPriority(1) = JsonFloat(Fin(0))

(***************************************************************************)
(* C7.  As claimed: encoding [Acme Cafe record, {name: "Beta Shop"}] gives *)
(* after the header the rows                                               *)
(*   Acme Cafe,,,,,4.5,12,80,0,91.3,,Yes,No,No,Wordpress,Yes,No            *)
(*   Beta Shop,,,,,,0,0,0.0,,No,No,No,,No,No                               *)
(***************************************************************************)
AcmeRow ==
  <<"A","c","m","e"," ","C","a","f","e",",",",",",",",",",","4",".","5",",",
    "1","2",",","8","0",",","0",",","9","1",".","3",",",",","Y","e","s",",",
    "N","o",",","N","o",",","W","o","r","d","p","r","e","s","s",",","Y","e",
    "s",",","N","o">>

\* Beta Shop, then six commas.
BetaRowAsClaimed ==
  <<"B","e","t","a"," ","S","h","o","p",",",",",",",",",",",",","0",",","0",
    ",","0",".","0",",",",","N","o",",","N","o",",","N","o",",",",","N","o",
    ",","N","o">>

\* Beta Shop, then seven commas: website, phone, address, emails, rating and
\* review_count are all empty.
BetaRow ==
  <<"B","e","t","a"," ","S","h","o","p",",",",",",",",",",",",",",","0",",",
    "0",",","0",".","0",",",",","N","o",",","N","o",",","N","o",",",",","N",
    "o",",","N","o">>

C7_ScenarioAsClaimed ==
  (csv_out.called /\ prospects = <<Acme, Beta>>) =>
    /\ csv_out.ok
    /\ csv_out.v = HeaderLine \o <<"\n">> \o AcmeRow \o <<"\n">>
                   \o BetaRowAsClaimed \o <<"\n">>

(***************************************************************************)
(* C7, amended.  The first data row is as claimed; the second is           *)
(*   Beta Shop,,,,,,,0,0,0.0,,No,No,No,,No,No                              *)
(* with seven commas after the name, so that it has 17 fields.             *)
(***************************************************************************)
C7_Scenario ==
  (csv_out.called /\ prospects = <<Acme, Beta>>) =>
    /\ csv_out.ok
    /\ csv_out.v = HeaderLine \o <<"\n">> \o AcmeRow \o <<"\n">>
                   \o BetaRow \o <<"\n">>

C7_Witness == csv_out.called /\ csv_out.ok /\ prospects = <<Acme, Beta>>

(***************************************************************************)
(* C9.  The emails cell is the list's elements, in input order and with    *)
(* repetitions kept, joined by "; "; the JSON emails value is the array of *)
(* the same elements in the same order; an empty or absent list gives an   *)
(* empty cell and an empty array.                                          *)
(***************************************************************************)
IsStringList(obj) ==
  obj.kind = "list" /\ \A i \in 1..Len(obj.l) : obj.l[i].kind = "str"

\* Where the i-th element starts in the joined cell.
RECURSIVE JoinOffset(_, _)
JoinOffset(l, i) ==
  IF i = 1 THEN 1 ELSE JoinOffset(l, i - 1) + Len(l[i - 1].s) + 2

JoinedBySemicolonSpace(cell, l) ==
  IF Len(l) = 0 THEN cell = <<>>
  ELSE /\ Len(cell) = JoinOffset(l, Len(l)) + Len(l[Len(l)].s) - 1
       /\ \A i \in 1..Len(l) :
            LET at == JoinOffset(l, i)
            IN  /\ SubSeq(cell, at, at + Len(l[i].s) - 1) = l[i].s
                /\ i < Len(l) =>
                     SubSeq(cell, at + Len(l[i].s), at + Len(l[i].s) + 1)
                       = <<";", " ">>

C9_EmailsVerbatim ==
  \A i \in 1..Len(prospects) :
    LET p == prospects[i]
    IN  /\ csv_out.called =>
             /\ "emails" \notin DOMAIN p => DataRow(i)[5] = <<>>
             /\ ("emails" \in DOMAIN p /\ IsStringList(p["emails"]))
                => JoinedBySemicolonSpace(DataRow(i)[5], p["emails"].l)
             /\ ("emails" \in DOMAIN p
                 /\ p["emails"] = PyList(<<PyStr(S_EmailA), PyStr(S_EmailB)>>))
                => DataRow(i)[5] =
                     <<"a","@","x",".","c","o","m",";"," ",
                       "b","@","y",".","c","o","m">>
        /\ json_out.called =>
             /\ JsonItem(i)["emails"].t = "array"
             /\ "emails" \notin DOMAIN p => JsonItem(i)["emails"].a = <<>>
             /\ ("emails" \in DOMAIN p /\ IsStringList(p["emails"])) =>
                  /\ Len(JsonItem(i)["emails"].a) = Len(p["emails"].l)
                  /\ \A j \in 1..Len(p["emails"].l) :
                       JsonItem(i)["emails"].a[j] = JsonString(p["emails"].l[j].s)

C9_Witness ==
  /\ csv_out.called
  /\ json_out.called
  /\ Len(prospects) = 1
  /\ "emails" \in DOMAIN prospects[1]
  /\ prospects[1]["emails"] = PyList(<<PyStr(S_EmailB), PyStr(S_EmailB)>>)
  /\ Len(JsonItem(1)["emails"].a) = 2

(***************************************************************************)
(* C10.  social_links holds exactly the hrefs that contain a known social  *)
(* domain, each once, in the order of their first occurrence in the        *)
(* document; empty HTML gives no title, no description and no links, and   *)
(* no error.                                                               *)
(***************************************************************************)
IsSocial(href) ==
  \E d \in {<<"f","a","c","e","b","o","o","k",".","c","o","m">>,
            <<"i","n","s","t","a","g","r","a","m",".","c","o","m">>,
            <<"t","w","i","t","t","e","r",".","c","o","m">>,
            <<"l","i","n","k","e","d","i","n",".","c","o","m">>,
            <<"y","o","u","t","u","b","e",".","c","o","m">>,
            <<"t","i","k","t","o","k",".","c","o","m">>} :
     \E i \in 1..Len(href) :
       /\ i + Len(d) - 1 <= Len(href)
       /\ \A j \in 1..Len(d) : href[i + j - 1] = d[j]

FirstIndex(list, x) ==
  CHOOSE i \in 1..Len(list) : list[i] = x /\ \A j \in 1..(i - 1) : list[j] # x

C10_SocialLinks ==
  meta_out.called =>
    /\ meta_out.ok
    /\ html.empty =>
         /\ ~meta_out.v.title.some
         /\ ~meta_out.v.meta_description.some
         /\ meta_out.v.social_links = <<>>
    /\ ~html.empty =>
         LET sl == meta_out.v.social_links
             links == html.links
         IN  /\ \A i \in 1..Len(sl) :
                  IsSocial(sl[i]) /\ \E j \in 1..Len(links) : links[j] = sl[i]
             /\ \A j \in 1..Len(links) :
                  IsSocial(links[j]) =>
                    Cardinality({i \in 1..Len(sl) : sl[i] = links[j]}) = 1
             /\ \A a, b \in 1..Len(sl) :
                  a < b => FirstIndex(links, sl[a]) < FirstIndex(links, sl[b])

C10_Witness ==
  /\ meta_out.called
  /\ ~html.empty
  /\ Len(html.links) = 3
  /\ html.links[1] = H_Share
  /\ html.links[2] = H_Plain
  /\ html.links[3] = H_Share
  /\ meta_out.v.social_links = <<H_Share>>

====
